---- MODULE Spec2Model ----
(***************************************************************************)
(* Provider abstraction and comparison dispatch of promptdotmodel:         *)
(* the adapters (BaseAIProvider and its three subclasses), the             *)
(* ProviderRegistry with compareModels, the /api/complete relay (POST),    *)
(* and the Home page's handlers: run, clear, model toggle, evaluations.    *)
(*                                                                         *)
(* Conventions.  JavaScript's undefined / null / "" of a string field are  *)
(* all written "" (they are all falsy where the code tests them).  Prices  *)
(* are in units of 1e-5 USD per 1000 tokens, so that 0.00025 is 25, and a  *)
(* cost is in units of 1e-8 USD: tokens/1000 * price is tokens * price in  *)
(* that unit.  A promise is a record with st in {"pending", "fulfilled",   *)
(* "rejected"}.  One action is one run-to-completion step of the event     *)
(* loop: the synchronous part of a call up to its first await, or the      *)
(* continuation that runs when an awaited fetch settles.                   *)
(***************************************************************************)
EXTENDS Integers, Sequences, FiniteSets, TLC

VARIABLES
  config,     \* config[p].apiKey: each adapter's stored ProviderConfig
  env,        \* the names of the API-key variables set in process.env
  phase,      \* "idle" | "awaiting" | "returned": position of the current call
  kind,       \* "none" | "compare" | "direct": which operation was called
  modelIds,   \* the modelIds argument of the current call
  prompt,     \* params.prompt of the current call
  calls,      \* calls[i]: the promise of provider.complete for modelIds[i]
  result,     \* the promise returned to the caller of the operation
  homePrompt,     \* Home: the prompt state
  selectedModels, \* Home: the selectedModels state, a list of ModelMetadata
  modelResults,   \* Home: the modelResults state
  isRunning,      \* Home: the isRunning state
  useRealAPI,     \* Home: the useRealAPI state
  run,            \* Home: the completion promises of the handleRun in progress
  providers,  \* the registry's providers Map, in insertion order
  answer,     \* what the last call that settles within its own step returned
  evals,        \* Home: the evals state, a list of EvalConfig
  evalResults,  \* Home: the evalResults state
  autoRunEvals, \* Home: the autoRunEvals state
  evalRuns,     \* Home: the handleRunEval calls in progress
  closure,      \* Home: the state captured by the handleRun in progress
  timers        \* Home: the auto-run timers set and not yet fired

registryVars == <<config, phase, kind, modelIds, prompt, calls, result>>

homeVars ==
  <<homePrompt, selectedModels, modelResults, isRunning, useRealAPI, run>>

adminVars == <<providers, answer>>

evalVars == <<evals, evalResults, autoRunEvals, evalRuns, closure, timers>>

vars == <<registryVars, env, homeVars, adminVars, evalVars>>

(***************************************************************************)
(* Bounds of the model.                                                    *)
(***************************************************************************)
MaxIds == 2

\* The most evaluations added and the most handleRunEval calls in progress.
MaxEvals == 1

MaxEvalRuns == 1

\* The most auto-run timers set and not yet fired.
MaxTimers == 1

\* Where evaluations run side by side: the most evaluations added and the
\* most handleRunEval calls in progress.
MaxPairEvals == 2

MaxPairRuns == 2

(***************************************************************************)
(* Static catalogs.                                                        *)
(***************************************************************************)
AdapterNames == {"anthropic", "openai", "openrouter"}

\* Registration order of the constructor.
RegisteredProviders == <<"anthropic", "openai", "openrouter">>

Model(p, id, inPrice, outPrice) ==
  [id |-> id, provider |-> p, inputCostPer1kTokens |-> inPrice,
   outputCostPer1kTokens |-> outPrice]

NoModel == Model("", "", 0, 0)

AnthropicModels ==
  << Model("anthropic", "claude-3-5-sonnet-20241022", 300, 1500),
     Model("anthropic", "claude-3-opus-20240229", 1500, 7500),
     Model("anthropic", "claude-3-haiku-20240307", 25, 125) >>

OpenAIModels ==
  << Model("openai", "gpt-4o", 500, 1500),
     Model("openai", "gpt-4-turbo-2024-04-09", 1000, 3000),
     Model("openai", "gpt-3.5-turbo-0125", 50, 150) >>

OpenRouterModels ==
  << Model("openrouter", "openai/gpt-4o", 500, 1500),
     Model("openrouter", "openai/gpt-4-turbo", 1000, 3000),
     Model("openrouter", "openai/gpt-3.5-turbo", 50, 150),
     Model("openrouter", "anthropic/claude-3.5-sonnet", 300, 1500),
     Model("openrouter", "anthropic/claude-3-opus", 1500, 7500),
     Model("openrouter", "anthropic/claude-3-haiku", 25, 125),
     Model("openrouter", "google/gemini-pro-1.5", 125, 500),
     Model("openrouter", "meta-llama/llama-3.1-405b-instruct", 300, 300),
     Model("openrouter", "meta-llama/llama-3.1-70b-instruct", 80, 80),
     Model("openrouter", "mistralai/mistral-large", 800, 2400) >>

\* The names a provider is registered under: those of the constructor and
\* the one of a provider added later.
ProviderNames == AdapterNames \cup {"newprovider"}

\* One entry of the providers Map: the name and the class of the instance;
\* at orders the entries by the time of their registerProvider call.
Entry(name, adapter, at) == [name |-> name, adapter |-> adapter, at |-> at]

\* The class of the instance registered under p, "" when there is none.
AdapterOf(p) ==
  LET ks == {k \in 1..Len(providers) : providers[k].name = p} IN
    IF ks = {} THEN "" ELSE providers[CHOOSE k \in ks : TRUE].adapter

\* The models array of a class.
Catalog(adapter) ==
  CASE adapter = "anthropic"  -> AnthropicModels
    [] adapter = "openai"     -> OpenAIModels
    [] adapter = "openrouter" -> OpenRouterModels
    [] OTHER                  -> <<>>

\* provider.models of the instance registered under p.
Models(p) == Catalog(AdapterOf(p))

DisplayName(p) ==
  CASE AdapterOf(p) = "anthropic"  -> "Anthropic"
    [] AdapterOf(p) = "openai"     -> "OpenAI"
    [] AdapterOf(p) = "openrouter" -> "OpenRouter"
    [] OTHER                       -> ""

RequiresApiKey(p) == TRUE

\* The process.env keys that complete() accepts in place of a stored credential.
EnvVars == {"ANTHROPIC_API_KEY", "OPENAI_API_KEY", "OPENROUTER_API_KEY"}

EnvFallback(p) ==
  CASE AdapterOf(p) = "anthropic"  -> {"ANTHROPIC_API_KEY", "OPENROUTER_API_KEY"}
    [] AdapterOf(p) = "openai"     -> {"OPENAI_API_KEY", "OPENROUTER_API_KEY"}
    [] AdapterOf(p) = "openrouter" -> {"OPENROUTER_API_KEY"}
    [] OTHER                       -> {}

(***************************************************************************)
(* Inputs.                                                                 *)
(***************************************************************************)
\* One id of each adapter and one id no adapter knows.
RequestIds ==
  {"claude-3-5-sonnet-20241022", "gpt-4o", "openai/gpt-4o", "nonexistent-model"}

IdLists == UNION {[1..n -> RequestIds] : n \in 0..MaxIds}

\* A prompt that is blank and a valid one.
Prompts == {" ", "Explain recursion"}

ApiKeys == {"", "sk-test"}

(***************************************************************************)
(* String helpers                                                          *)
(***************************************************************************)
IsSpace(c) == c \in {" ", "\t", "\n"}

RECURSIVE TrimStart(_)
TrimStart(s) ==
  IF Len(s) > 0 /\ IsSpace(SubSeq(s, 1, 1))
    THEN TrimStart(SubSeq(s, 2, Len(s)))
  ELSE s

RECURSIVE TrimEnd(_)
TrimEnd(s) ==
  IF Len(s) > 0 /\ IsSpace(SubSeq(s, Len(s), Len(s)))
    THEN TrimEnd(SubSeq(s, 1, Len(s) - 1))
  ELSE s

\* String.prototype.trim
Trim(s) == TrimEnd(TrimStart(s))

\* String.prototype.includes
Includes(s, sub) ==
  \E i \in 1..(Len(s) - Len(sub) + 1) : SubSeq(s, i, i + Len(sub) - 1) = sub

\* The first place at or after from where sub occurs in s, 0 when nowhere.
IndexOf(s, sub, from) ==
  LET places == {i \in from..(Len(s) - Len(sub) + 1) :
                   SubSeq(s, i, i + Len(sub) - 1) = sub}
  IN IF places = {} THEN 0
     ELSE CHOOSE i \in places : \A j \in places : i <= j

RECURSIVE GetSubstitution(_, _, _, _, _)
\* The text a replacement string stands for at one match (GetSubstitution
\* of String.prototype.replace, for a pattern without capture groups): $$ is
\* a dollar sign, $& the matched text and $' the text after the match; every
\* other character stands for itself.  (A dollar sign with a grave accent
\* stands for the text before the match; no text of the model holds one.)
GetSubstitution(replacement, matched, before, after, k) ==
  LET dollar == IndexOf(replacement, "$", k) IN
    IF dollar = 0 THEN SubSeq(replacement, k, Len(replacement))
    ELSE LET two == SubSeq(replacement, dollar,
                           IF dollar + 1 > Len(replacement) THEN dollar
                           ELSE dollar + 1)
         IN SubSeq(replacement, k, dollar - 1) \o
            (CASE two = "$$" ->
                    "$" \o GetSubstitution(replacement, matched, before,
                                           after, dollar + 2)
               [] two = "$&" ->
                    matched \o GetSubstitution(replacement, matched, before,
                                               after, dollar + 2)
               [] two = "$'" ->
                    after \o GetSubstitution(replacement, matched, before,
                                             after, dollar + 2)
               [] OTHER ->
                    "$" \o GetSubstitution(replacement, matched, before,
                                           after, dollar + 1))

RECURSIVE ReplaceFrom(_, _, _, _)
\* s.replace(/placeholder/g, replacement) from the place from on.
ReplaceFrom(s, placeholder, replacement, from) ==
  LET at == IndexOf(s, placeholder, from) IN
    IF at = 0 THEN SubSeq(s, from, Len(s))
    ELSE SubSeq(s, from, at - 1)
           \o GetSubstitution(replacement, placeholder, SubSeq(s, 1, at - 1),
                SubSeq(s, at + Len(placeholder), Len(s)), 1)
           \o ReplaceFrom(s, placeholder, replacement, at + Len(placeholder))

\* s.replace(/placeholder/g, replacement), for a placeholder that is matched
\* literally.
ReplaceAll(s, placeholder, replacement) ==
  ReplaceFrom(s, placeholder, replacement, 1)

(***************************************************************************)
(* BaseAIProvider                                                          *)
(***************************************************************************)
RECURSIVE Find(_, _, _)
\* Array.prototype.find over a catalog: the first model with this id.
Find(models, id, i) ==
  IF i > Len(models) THEN NoModel
  ELSE IF models[i].id = id THEN models[i]
  ELSE Find(models, id, i + 1)

GetModel(p, id) == Find(Models(p), id, 1)

IsConfigured(p) ==
  IF RequiresApiKey(p) THEN config[p].apiKey # "" ELSE TRUE

ProviderError(message, code) ==
  [name |-> "ProviderError", message |-> message, code |-> code]

PlainError(message) == [name |-> "Error", message |-> message, code |-> ""]

NoError == [name |-> "", message |-> "", code |-> ""]

\* Variant: tokens are billed by whole thousands.
EstimateCostPerBlock(p, id, inputTokens, outputTokens) ==
  LET model == GetModel(p, id) IN
    (inputTokens \div 1000) * 1000 * model.inputCostPer1kTokens
      + (outputTokens \div 1000) * 1000 * model.outputCostPer1kTokens

\* estimateCost, for a model the adapter knows.
EstimateCost(p, id, inputTokens, outputTokens) ==
  LET model == GetModel(p, id) IN
    inputTokens * model.inputCostPer1kTokens
      + outputTokens * model.outputCostPer1kTokens

(***************************************************************************)
(* The relay: POST /api/complete                                           *)
(***************************************************************************)
\* A CompletionResponse.  Of its metadata only metadata.provider is kept, ""
\* when the metadata has none.
RelayData(content, model, inputTokens, outputTokens, duration, cost, provider) ==
  [content |-> content, model |-> model, inputTokens |-> inputTokens,
   outputTokens |-> outputTokens, duration |-> duration, cost |-> cost,
   metadata |-> [provider |-> provider]]

\* response: null
NoData == RelayData("", "", 0, 0, 0, 0, "")

Request(provider, modelId, text, apiKey, useOpenRouter) ==
  [provider |-> provider, modelId |-> modelId, prompt |-> text,
   apiKey |-> apiKey, useOpenRouter |-> useOpenRouter]

NoRequest == Request("", "", "", "", FALSE)

\* What the vendor's API does with the forwarded request: it answers with a
\* text and token counts after ms milliseconds, it answers with an HTTP error
\* (error.response is set), or the call throws without a response.
Upstream ==
  { [kind |-> "ok", text |-> "R1", inputTokens |-> 10, outputTokens |-> 20,
     ms |-> 120, message |-> ""],
    [kind |-> "http", text |-> "", inputTokens |-> 0, outputTokens |-> 0,
     ms |-> 0, message |-> "rate limited"],
    [kind |-> "throw", text |-> "", inputTokens |-> 0, outputTokens |-> 0,
     ms |-> 0, message |-> "socket hang up"] }

\* An HTTP response as fetch resolves it: ok is response.ok, json tells
\* whether response.json() parses, error and details are the fields of an
\* error payload, data is the payload of a success.
HttpResponse(ok, json, error, details, data) ==
  [kind |-> "response", ok |-> ok, json |-> json, error |-> error,
   details |-> details, data |-> data, message |-> "", elapsed |-> 0]

\* fetch rejects (the network failed)
FetchRejects(message) ==
  [kind |-> "reject", ok |-> FALSE, json |-> FALSE, error |-> "",
   details |-> "", data |-> NoData, message |-> message, elapsed |-> 0]

EffectiveApiKey(req) ==
  IF req.apiKey # "" THEN req.apiKey
  ELSE IF req.useOpenRouter
    THEN (IF "OPENROUTER_API_KEY" \in env THEN "env-openrouter" ELSE "")
  ELSE IF req.provider = "openai"
    THEN (IF "OPENAI_API_KEY" \in env THEN "env-openai" ELSE "")
  ELSE IF req.provider = "anthropic"
    THEN (IF "ANTHROPIC_API_KEY" \in env THEN "env-anthropic" ELSE "")
  ELSE ""

POST(req, upstream) ==
  IF EffectiveApiKey(req) = ""
    THEN HttpResponse(FALSE, TRUE, "API key required",
           "Please provide an API key or set up environment variables", NoData)
  ELSE IF ~(req.useOpenRouter \/ req.provider \in {"openai", "anthropic"})
    THEN HttpResponse(FALSE, TRUE, "Unsupported provider",
           "Provider " \o req.provider \o " is not yet implemented", NoData)
  ELSE CASE upstream.kind = "ok" ->
              HttpResponse(TRUE, TRUE, "", "",
                RelayData(upstream.text, req.modelId, upstream.inputTokens,
                          upstream.outputTokens, upstream.ms, 0, req.provider))
         [] upstream.kind = "http" ->
              HttpResponse(FALSE, TRUE, "API Error",
                IF upstream.message # "" THEN upstream.message
                ELSE "Unknown API error", NoData)
         [] upstream.kind = "throw" ->
              HttpResponse(FALSE, TRUE, "Internal Server Error",
                upstream.message, NoData)

\* No settlement yet.
NoOutcome ==
  [kind |-> "none", ok |-> FALSE, json |-> FALSE, error |-> "",
   details |-> "", data |-> NoData, message |-> "", elapsed |-> 0]

\* The milliseconds the request and the response spend between the caller
\* and the relay.
Latencies == {0, 30}

\* The wall-clock time between the call of fetch and its settlement, kept
\* for the completions the relay answers with success: the relay's own
\* duration (Date.now() - startTime around the vendor call) and the transit.
RoundTrip(response, latency) ==
  IF response.ok
    THEN [response EXCEPT !.elapsed = response.data.duration + latency]
  ELSE response

\* Everything a fetch of /api/complete can settle with: the relay's answer,
\* a network failure, or a body that is not JSON (a gateway's error page).
FetchOutcomes(req) ==
  {RoundTrip(POST(req, u), latency) : u \in Upstream, latency \in Latencies}
    \cup {FetchRejects("Failed to fetch")}
    \cup {HttpResponse(ok, FALSE, "", "", NoData) : ok \in BOOLEAN}

\* The relay's answers alone, without transit time: a completion or the
\* vendor's HTTP error.
RelayAnswers(req) ==
  {RoundTrip(POST(req, u), 0) : u \in {v \in Upstream : v.kind # "throw"}}

(***************************************************************************)
(* The adapters' complete()                                                *)
(***************************************************************************)
Promise(st, value, error) == [st |-> st, value |-> value, error |-> error]

\* Variant: any API key of the environment is taken as this adapter's.
NotConfiguredAnyEnv(p) == ~IsConfigured(p) /\ env = {}

\* The guard in front of the relay call.
NotConfigured(p) == ~IsConfigured(p) /\ EnvFallback(p) \cap env = {}

\* complete(), up to its await of fetch: a rejection, or the request sent.
CompleteStart(p, id, text) ==
  IF NotConfigured(p)
    THEN [promise |-> Promise("rejected", NoData,
            ProviderError(DisplayName(p)
              \o " provider is not configured. Please provide an API key.", "")),
          request |-> NoRequest, fetches |-> 0]
  ELSE IF GetModel(p, id) = NoModel
    THEN [promise |-> Promise("rejected", NoData,
            ProviderError("Model not found: " \o id, "MODEL_NOT_FOUND")),
          request |-> NoRequest, fetches |-> 0]
  ELSE [promise |-> Promise("pending", NoData, NoError),
        request |-> Request(p, id, text, config[p].apiKey, p = "openrouter"),
        fetches |-> 1]

\* Variant: response.ok is not looked at, the error payload is read as data.
TryBlockNoStatusCheck(p, id, outcome) ==
  IF outcome.kind = "reject"
    THEN Promise("rejected", NoData, PlainError(outcome.message))
  ELSE IF ~outcome.json
    THEN Promise("rejected", NoData,
           PlainError("Unexpected token < in JSON at position 0"))
  ELSE Promise("fulfilled",
         [outcome.data EXCEPT !.cost =
            EstimateCost(p, id, outcome.data.inputTokens,
                         outcome.data.outputTokens)],
         NoError)

\* The body of the try block once fetch has settled: the value returned, or
\* the Error thrown inside it.
TryBlock(p, id, outcome) ==
  IF outcome.kind = "reject"
    THEN Promise("rejected", NoData, PlainError(outcome.message))
  ELSE IF ~outcome.json
    THEN Promise("rejected", NoData,
           PlainError("Unexpected token < in JSON at position 0"))
  ELSE IF ~outcome.ok
    THEN Promise("rejected", NoData,
           PlainError(IF outcome.details # "" THEN outcome.details
                      ELSE IF outcome.error # "" THEN outcome.error
                      ELSE "API request failed"))
  ELSE Promise("fulfilled",
         [outcome.data EXCEPT !.cost =
            EstimateCost(p, id, outcome.data.inputTokens,
                         outcome.data.outputTokens)],
         NoError)

\* The catch block: every Error thrown in the try block is wrapped.
CatchBlock(p, thrown) ==
  ProviderError(DisplayName(p) \o " API error: " \o thrown.message, "API_ERROR")

\* complete(), from the settlement of its fetch to its own settlement.
CompleteFinish(p, id, outcome) ==
  LET tried == TryBlock(p, id, outcome) IN
    IF tried.st = "rejected"
      THEN Promise("rejected", NoData, CatchBlock(p, tried.error))
    ELSE tried

(***************************************************************************)
(* ProviderRegistry                                                        *)
(***************************************************************************)
RECURSIVE FindFrom(_, _)
\* The scan of findModel over the providers map, in registration order.
FindFrom(id, k) ==
  IF k > Len(providers) THEN ""
  ELSE IF GetModel(providers[k].name, id) # NoModel
    THEN providers[k].name
  ELSE FindFrom(id, k + 1)

\* Variant: an id no provider has falls back to the first provider.
FindModelOrFirst(id) ==
  IF FindFrom(id, 1) = "" THEN providers[1].name ELSE FindFrom(id, 1)

\* findModel: the name of the first provider that has the model, "" for
\* undefined.
FindModel(id) == FindFrom(id, 1)

\* One entry of calls: what the callback of modelIds.map awaits for one id.
\* fetches counts the relay calls issued for it and outcome keeps what its
\* fetch settled with.
Call(id, p, promise, request, fetches) ==
  [modelId |-> id, provider |-> p, promise |-> promise, request |-> request,
   fetches |-> fetches, outcome |-> NoOutcome]

\* The callback of modelIds.map up to its await: findModel, then the throw
\* for an unknown id or the call of provider.complete.
MapCallbackStart(id, text) ==
  LET p == FindModel(id) IN
    IF p = ""
      THEN Call(id, "", Promise("rejected", NoData,
                  PlainError("Model not found: " \o id)), NoRequest, 0)
    ELSE LET c == CompleteStart(p, id, text) IN
           Call(id, p, c.promise, c.request, c.fetches)

\* Variant: a loop that awaits each call before it starts the next one.
MapSequential(ids, text) ==
  [k \in 1..Len(ids) |->
     IF k = 1 THEN MapCallbackStart(ids[k], text)
     ELSE Call(ids[k], FindModel(ids[k]), Promise("pending", NoData, NoError),
               NoRequest, 0)]

\* modelIds.map(async ...): every callback runs up to its await before map
\* returns, so every call is started before any of them settles.
MapAll(ids, text) == [k \in 1..Len(ids) |-> MapCallbackStart(ids[k], text)]

\* One element of the array compareModels returns.
Outcome(id, response, error) ==
  [modelId |-> id, response |-> response, error |-> error]

\* Variant: the callback has no try/catch around its await.
CallbackPromiseNoCatch(call) ==
  CASE call.promise.st = "pending" -> Promise("pending", <<>>, NoError)
    [] call.promise.st = "fulfilled" ->
         Promise("fulfilled",
                 <<Outcome(call.modelId, call.promise.value, NoError)>>, NoError)
    [] call.promise.st = "rejected" ->
         Promise("rejected", <<>>, call.promise.error)

\* The promise of the callback of modelIds.map: its return on success, the
\* return of its catch block on any throw.
CallbackPromise(call) ==
  CASE call.promise.st = "pending" -> Promise("pending", <<>>, NoError)
    [] call.promise.st = "fulfilled" ->
         Promise("fulfilled",
                 <<Outcome(call.modelId, call.promise.value, NoError)>>, NoError)
    [] call.promise.st = "rejected" ->
         Promise("fulfilled",
                 <<Outcome(call.modelId, NoData, call.promise.error)>>, NoError)

RECURSIVE ValuesReversed(_, _)
\* Variant: each value is put in front of those collected before it.
ValuesReversed(ps, k) ==
  IF k > Len(ps) THEN <<>> ELSE ValuesReversed(ps, k + 1) \o ps[k].value

RECURSIVE Values(_, _)
\* The fulfilment values of promises k..Len(ps), in order.
Values(ps, k) ==
  IF k > Len(ps) THEN <<>> ELSE ps[k].value \o Values(ps, k + 1)

\* Variant: Promise.race, settled as soon as one promise is.
PromiseRace(ps) ==
  IF \E k \in 1..Len(ps) : ps[k].st # "pending"
    THEN LET k == CHOOSE j \in 1..Len(ps) : ps[j].st # "pending" IN
           Promise(ps[k].st, ps[k].value, ps[k].error)
  ELSE Promise("pending", <<>>, NoError)

\* Promise.all: rejected as soon as one promise is, fulfilled with the values
\* in the order of the promises once all are, pending until then.
PromiseAll(ps) ==
  IF \E k \in 1..Len(ps) : ps[k].st = "rejected"
    THEN LET k == CHOOSE j \in 1..Len(ps) : ps[j].st = "rejected" IN
           Promise("rejected", <<>>, ps[k].error)
  ELSE IF \A k \in 1..Len(ps) : ps[k].st = "fulfilled"
    THEN Promise("fulfilled", Values(ps, 1), NoError)
  ELSE Promise("pending", <<>>, NoError)

\* The promise compareModels returns, as a function of the calls' state.
CompareModelsPromise(cs) ==
  PromiseAll([k \in 1..Len(cs) |-> CallbackPromise(cs[k])])

\* The promise a direct call of provider.complete returns.
CompletePromise(call) ==
  CASE call.promise.st = "fulfilled" ->
         Promise("fulfilled",
                 <<Outcome(call.modelId, call.promise.value, NoError)>>, NoError)
    [] call.promise.st = "rejected" ->
         Promise("rejected", <<>>, call.promise.error)
    [] OTHER -> Promise("pending", <<>>, NoError)

\* Variant: a failed attempt is sent to the relay once more.
SettleWithRetry(call, outcome) ==
  LET done == CompleteFinish(call.provider, call.modelId, outcome) IN
    IF done.st = "rejected" /\ call.fetches < 2
      THEN [call EXCEPT !.fetches = @ + 1]
    ELSE [call EXCEPT !.promise = done, !.outcome = outcome]

\* The continuation of one call when its fetch settles: complete() finishes
\* and the callback takes its value or catches its error.
Settle(call, outcome) ==
  [call EXCEPT !.promise = CompleteFinish(call.provider, call.modelId, outcome),
               !.outcome = outcome]

(***************************************************************************)
(* Actions                                                                 *)
(***************************************************************************)
\* The record of a call: its name, its arguments and the promise (or, for a
\* synchronous method, the value) it returned.
\* before keeps what the call found stored, for initialize the credential.
Answer(op, args, promise) ==
  [op |-> op, args |-> args, promise |-> promise, before |-> ""]

NoAnswer == Answer("", <<>>, Promise("pending", <<>>, NoError))

\* Variant: the config is stored only once the credential was found present.
InitializeStoreChecked(p, key) ==
  IF key = "" THEN config ELSE [config EXCEPT ![p] = [apiKey |-> key]]

\* Variant: a config equal to the stored one is dropped instead of kept.
InitializeStoreOnce(p, key) ==
  IF key # "" /\ config[p].apiKey = key
    THEN [config EXCEPT ![p] = [apiKey |-> ""]]
  ELSE [config EXCEPT ![p] = [apiKey |-> key]]

\* initialize: this.config = {...config}
InitializeStore(p, key) == [config EXCEPT ![p] = [apiKey |-> key]]

\* initialize: the promise it returns.
InitializePromise(p, key) ==
  IF RequiresApiKey(p) /\ key = ""
    THEN Promise("rejected", <<>>,
           ProviderError("API key is required for " \o DisplayName(p), ""))
  ELSE Promise("fulfilled", <<>>, NoError)

\* BaseAIProvider.initialize: the config is stored before the credential is
\* looked at.
Initialize(p, key) ==
  /\ phase = "idle"
  /\ AdapterOf(p) # ""
  /\ config' = InitializeStore(p, key)
  /\ answer' = [Answer("initialize", <<p, key>>, InitializePromise(p, key))
                  EXCEPT !.before = config[p].apiKey]
  /\ UNCHANGED <<env, phase, kind, modelIds, prompt, calls, result, homeVars, evalVars,
                 providers>>

\* compareModels(ids, {prompt: text}) up to its return of Promise.all(...):
\* the callbacks of map run one after the other, each up to its await.
CompareModels(ids, text) ==
  /\ phase = "idle"
  /\ phase' = "awaiting"
  /\ kind' = "compare"
  /\ modelIds' = ids
  /\ prompt' = text
  /\ calls' = MapAll(ids, text)
  /\ result' = Promise("pending", <<>>, NoError)
  /\ answer' = NoAnswer
  /\ UNCHANGED <<config, env, homeVars, evalVars, providers>>

\* provider.complete(id, {prompt: text}) called on its own.
DirectComplete(p, id, text) ==
  /\ phase = "idle"
  /\ phase' = "awaiting"
  /\ kind' = "direct"
  /\ modelIds' = <<id>>
  /\ prompt' = text
  /\ calls' = LET c == CompleteStart(p, id, text) IN
                <<Call(id, p, c.promise, c.request, c.fetches)>>
  /\ result' = Promise("pending", <<>>, NoError)
  /\ answer' = NoAnswer
  /\ UNCHANGED <<config, env, homeVars, evalVars, providers>>

\* The fetch of call k settles and the code awaiting it runs.
FetchSettles(k, outcome) ==
  /\ phase = "awaiting"
  /\ calls' = [calls EXCEPT ![k] = Settle(@, outcome)]
  /\ UNCHANGED <<config, env, phase, kind, modelIds, prompt, result, homeVars, evalVars,
                 adminVars>>

\* The caller's await of the returned promise resumes.
Return ==
  /\ phase = "awaiting"
  /\ LET returned == IF kind = "compare" THEN CompareModelsPromise(calls)
                     ELSE CompletePromise(calls[1]) IN
       /\ returned.st # "pending"
       /\ result' = returned
  /\ phase' = "returned"
  /\ UNCHANGED <<config, env, kind, modelIds, prompt, calls, homeVars, evalVars,
                 adminVars>>

\* The calls whose fetch is in flight.
InFlight == {k \in 1..Len(calls) : calls[k].promise.st = "pending"}

(***************************************************************************)
(* Home (app/page.tsx)                                                     *)
(***************************************************************************)
RECURSIVE AllModelsFrom(_)
\* The loop of getAllModels over the providers Map.
AllModelsFrom(k) ==
  IF k > Len(providers) THEN <<>>
  ELSE Models(providers[k].name) \o AllModelsFrom(k + 1)

\* getAllModels: the catalogs in registration order.
GetAllModels == AllModelsFrom(1)

IsDefaultModel(model) ==
  Includes(model.id, "gpt-4o") \/ Includes(model.id, "claude-3-5-sonnet")

\* The effect that selects models when none is selected: the first two of
\* the available models whose id names gpt-4o or claude-3-5-sonnet.
DefaultModels ==
  LET matching == SelectSeq(GetAllModels, IsDefaultModel) IN
    SubSeq(matching, 1, IF Len(matching) < 2 THEN Len(matching) ELSE 2)

\* The models offered to the toggle: one of each adapter.
ToggleChoices == {m \in {GetAllModels[k] : k \in 1..Len(GetAllModels)} :
                    m.id \in RequestIds}

HomePrompts == {"", " ", "Explain recursion"}

ModelResult(model, response, error, isLoading) ==
  [model |-> model, response |-> response, error |-> error,
   isLoading |-> isLoading]

\* The modelResults of a fresh selection.
FreshResults(models) ==
  [k \in 1..Len(models) |-> ModelResult(models[k], NoData, "", FALSE)]

\* The provider sent to the relay for a model.
VendorTag(model) ==
  IF model.provider = "openrouter" THEN "openrouter"
  ELSE IF Includes(model.id, "openrouter") THEN "openrouter"
  ELSE IF Includes(model.id, "gpt") THEN "openai"
  ELSE IF Includes(model.id, "claude") THEN "anthropic"
  ELSE model.provider

\* The body of the request handleRun posts for a model: no apiKey.
RunRequest(model, text) ==
  Request(VendorTag(model), model.id, text, "",
          VendorTag(model) = "openrouter" \/ Includes(model.id, "/"))

\* The draws of Math.random() in sample mode: outputTokens in 50..249,
\* duration in 500..3499, cost below 0.001 USD.
SampleDraws ==
  { [outputTokens |-> 50, duration |-> 500, cost |-> 0],
    [outputTokens |-> 249, duration |-> 3499, cost |-> 99999] }

\* prompt.slice(0, 100)
Slice100(text) == SubSeq(text, 1, IF Len(text) < 100 THEN Len(text) ELSE 100)

\* The least of the draws.
AutoDraw == [outputTokens |-> 50, duration |-> 500, cost |-> 0]

\* The sample response; its text is cut to its first words and the prompt
\* it quotes.
SampleResponse(model, text, draw) ==
  RelayData("This is a sample response from " \o model.id \o ": "
              \o Slice100(text),
            model.id, Len(text) \div 4, draw.outputTokens, draw.duration,
            draw.cost, "")

\* What the callback of selectedModels.map returns for one model.
Completion(id, response, error) ==
  [modelId |-> id, response |-> response, error |-> error]

\* One entry of run: the promise of the callback for one model.
RunCall(model, real, request) ==
  [model |-> model, real |-> real, request |-> request,
   promise |-> Promise("pending", <<>>, NoError)]

\* The callback in real mode once its fetch has settled: the relay's body
\* is the response, an error becomes its message.
RealCompletion(model, outcome) ==
  IF outcome.kind = "reject"
    THEN Completion(model.id, NoData, outcome.message)
  ELSE IF ~outcome.json
    THEN Completion(model.id, NoData,
                    "Unexpected token < in JSON at position 0")
  ELSE IF ~outcome.ok
    THEN Completion(model.id, NoData,
           IF outcome.details # "" THEN outcome.details
           ELSE IF outcome.error # "" THEN outcome.error
           ELSE "API request failed")
  ELSE Completion(model.id, outcome.data, "")

RECURSIVE FindCompletion(_, _, _)
\* results.find(r => r.modelId === id); modelId "" stands for undefined.
FindCompletion(results, id, k) ==
  IF k > Len(results) THEN Completion("", NoData, "")
  ELSE IF results[k].modelId = id THEN results[k]
  ELSE FindCompletion(results, id, k + 1)

\* Variant: the update leaves isLoading as it finds it.
MergeResultsStillLoading(prev, results) ==
  [k \in 1..Len(prev) |->
     LET found == FindCompletion(results, prev[k].model.id, 1) IN
       IF found.modelId # ""
         THEN ModelResult(prev[k].model, found.response, found.error,
                          prev[k].isLoading)
       ELSE prev[k]]

\* The update of modelResults at the end of handleRun.
MergeResults(prev, results) ==
  [k \in 1..Len(prev) |->
     LET found == FindCompletion(results, prev[k].model.id, 1) IN
       IF found.modelId # ""
         THEN ModelResult(prev[k].model, found.response, found.error, FALSE)
       ELSE prev[k]]

\* What a handler sees of the state: the values of the render it was made in.
Closure(text, results, real, configs, auto) ==
  [prompt |-> text, modelResults |-> results, useRealAPI |-> real,
   evals |-> configs, autoRunEvals |-> auto]

NoClosure == Closure("", <<>>, FALSE, <<>>, FALSE)

\* The render the handlers of the page are made in now.
Render == Closure(homePrompt, modelResults, useRealAPI, evals, autoRunEvals)

\* The Textarea's onChange; the Textarea is disabled while a run goes on.
SetPrompt(text) ==
  /\ ~isRunning
  /\ homePrompt' = text
  /\ UNCHANGED <<selectedModels, modelResults, isRunning, useRealAPI, run>>
  /\ UNCHANGED <<registryVars, env, adminVars, evalVars>>

\* The Switch.
SetUseRealAPI(b) ==
  /\ useRealAPI' = b
  /\ UNCHANGED <<homePrompt, selectedModels, modelResults, isRunning, run>>
  /\ UNCHANGED <<registryVars, env, adminVars, evalVars>>

\* handleModelToggle, with the effect that selects the default models when
\* the selection has become empty.
HandleModelToggle(model) ==
  /\ LET selected == \E k \in 1..Len(selectedModels) :
                       selectedModels[k].id = model.id
         toggled == IF selected
                      THEN SelectSeq(selectedModels,
                                     LAMBDA m : m.id # model.id)
                    ELSE Append(selectedModels, model)
         next == IF Len(toggled) = 0 THEN DefaultModels ELSE toggled
     IN /\ selectedModels' = next
        /\ modelResults' = FreshResults(next)
  /\ UNCHANGED <<homePrompt, isRunning, useRealAPI, run>>
  /\ UNCHANGED <<registryVars, env, adminVars, evalVars>>

\* An auto-run timer: the render its callback was made in, and the
\* modelResults the run that set it had just produced.
Timer(c, produced) == [closure |-> c, produced |-> produced]

\* handleRun up to its await of Promise.all; the run button is disabled
\* while a run goes on.  The render of the click is kept when the code after
\* the await will read it, that is when auto-run is on and there are
\* evaluations.
HandleRun ==
  /\ ~isRunning
  /\ Trim(homePrompt) # ""
  /\ Len(selectedModels) # 0
  /\ isRunning' = TRUE
  /\ modelResults' =
       [k \in 1..Len(modelResults) |->
          ModelResult(modelResults[k].model, NoData, "", TRUE)]
  /\ run' = [k \in 1..Len(selectedModels) |->
               RunCall(selectedModels[k], useRealAPI,
                       IF useRealAPI
                         THEN RunRequest(selectedModels[k], homePrompt)
                       ELSE Request("", "", homePrompt, "", FALSE))]
  /\ closure' = IF autoRunEvals /\ Len(evals) > 0 THEN Render ELSE NoClosure
  /\ UNCHANGED <<homePrompt, selectedModels, useRealAPI>>
  /\ UNCHANGED <<evals, evalResults, autoRunEvals, evalRuns, timers>>
  /\ UNCHANGED <<registryVars, env, adminVars>>

\* The fetch of a real-mode callback settles.
RunFetchSettles(k, outcome) ==
  /\ run[k].real
  /\ run[k].promise.st = "pending"
  /\ run' = [run EXCEPT ![k].promise =
               Promise("fulfilled",
                       <<RealCompletion(run[k].model, outcome)>>, NoError)]
  /\ UNCHANGED <<homePrompt, selectedModels, modelResults, isRunning,
                 useRealAPI>>
  /\ UNCHANGED <<registryVars, env, adminVars, evalVars>>

\* The timer of a sample-mode callback fires.
RunTimerFires(k, draw) ==
  /\ ~run[k].real
  /\ run[k].promise.st = "pending"
  /\ run' = [run EXCEPT ![k].promise =
               Promise("fulfilled",
                       <<Completion(run[k].model.id,
                           SampleResponse(run[k].model, run[k].request.prompt,
                                          draw), "")>>, NoError)]
  /\ UNCHANGED <<homePrompt, selectedModels, modelResults, isRunning,
                 useRealAPI>>
  /\ UNCHANGED <<registryVars, env, adminVars, evalVars>>

\* handleRun after its await of Promise.all: the results are merged, the
\* auto-run timer is set when the render of the click had auto-run on and
\* evaluations, and isRunning is reset.
RunFinish ==
  /\ Len(run) > 0
  /\ LET all == PromiseAll([k \in 1..Len(run) |-> run[k].promise]) IN
       /\ all.st = "fulfilled"
       /\ modelResults' = MergeResults(modelResults, all.value)
       /\ timers' = IF closure.autoRunEvals /\ Len(closure.evals) > 0
                      THEN Append(timers,
                             Timer(closure,
                                   MergeResults(modelResults, all.value)))
                    ELSE timers
  /\ closure' = NoClosure
  /\ isRunning' = FALSE
  /\ run' = <<>>
  /\ UNCHANGED <<homePrompt, selectedModels, useRealAPI>>
  /\ UNCHANGED <<evals, evalResults, autoRunEvals, evalRuns>>
  /\ UNCHANGED <<registryVars, env, adminVars>>

\* handleClear; the clear button is disabled without a prompt, without a
\* selection and while a run goes on.
HandleClear ==
  /\ ~isRunning
  /\ Trim(homePrompt) # ""
  /\ Len(selectedModels) # 0
  /\ homePrompt' = ""
  /\ modelResults' =
       [k \in 1..Len(modelResults) |->
          ModelResult(modelResults[k].model, NoData, "", FALSE)]
  /\ evalResults' = <<>>
  /\ answer' = NoAnswer
  /\ UNCHANGED <<selectedModels, isRunning, useRealAPI, run, providers>>
  /\ UNCHANGED <<evals, autoRunEvals, evalRuns, closure, timers>>
  /\ UNCHANGED <<registryVars, env>>

\* setAutoRunEvals
SetAutoRunEvals(b) ==
  /\ autoRunEvals' = b
  /\ UNCHANGED <<evals, evalResults, evalRuns, closure, timers>>
  /\ UNCHANGED <<registryVars, env, homeVars, adminVars>>

(***************************************************************************)
(* Home: evaluations                                                       *)
(***************************************************************************)
\* An EvalConfig; prompt and model are those of an LLMJudgeConfig, "" and
\* NoModel (null) in the other variants.
EvalConfig(type, name, template, model) ==
  [type |-> type, name |-> name, prompt |-> template, model |-> model]

\* The configs handed to handleAddEval: a judge whose template repeats a
\* placeholder, and one evalConfig of each other variant.
EvalConfigs ==
  { EvalConfig("llm-judge", "judge", "Q:{input} A:{output} {output}",
               OpenAIModels[1]),
    EvalConfig("sentiment", "mood", "", NoModel),
    EvalConfig("custom", "script", "", NoModel) }

\* The prompts typed while evaluations are looked at.
EvalPrompts == {"Explain recursion", "What is $& ?"}

\* One entry of evalResults; result and error are "" for null.
EvalResult(evalId, modelId, text, isLoading, error) ==
  [evalId |-> evalId, modelId |-> modelId, result |-> text,
   isLoading |-> isLoading, error |-> error]

\* Variant: {output} is replaced first, {input} second.
JudgePromptOutputFirst(template, input, output) ==
  ReplaceAll(ReplaceAll(template, "{output}", output), "{input}", input)

\* The judge prompt: {input} is replaced first, {output} second.
JudgePrompt(template, input, output) ==
  ReplaceAll(ReplaceAll(template, "{input}", input), "{output}", output)

\* The callback of handleRunEval for one model result, up to its await.
EvalCall(evalConfig, c, modelResult) ==
  LET judgePrompt == JudgePrompt(evalConfig.prompt, c.prompt,
                                 modelResult.response.content) IN
    [modelId |-> modelResult.model.id,
     output |-> modelResult.response.content,
     judgePrompt |-> judgePrompt,
     real |-> c.useRealAPI,
     request |-> IF c.useRealAPI THEN RunRequest(evalConfig.model, judgePrompt)
                 ELSE NoRequest,
     promise |-> Promise("pending", <<>>, NoError)]

\* The texts the sample evaluation draws from.
EvalDraws == {"Score: 7/10", "Score: 9/10"}

\* The result of the callback in real mode once its fetch has settled.
RealEvalResult(evalConfig, call, outcome) ==
  LET done == RealCompletion([id |-> call.modelId], outcome) IN
    IF done.error # ""
      THEN EvalResult(evalConfig.name, call.modelId, "", FALSE, done.error)
    ELSE EvalResult(evalConfig.name, call.modelId, done.response.content,
                    FALSE, "")

\* Variant: the callback has no catch, a failed judge call rejects it.
EvalCallbackNoCatch(evalConfig, call, outcome) ==
  LET done == RealEvalResult(evalConfig, call, outcome) IN
    IF done.error # "" THEN Promise("rejected", <<>>, PlainError(done.error))
    ELSE Promise("fulfilled", <<done>>, NoError)

\* The promise of the callback in real mode once its fetch has settled: the
\* try and catch make it fulfilled whatever the fetch did.
EvalCallback(evalConfig, call, outcome) ==
  Promise("fulfilled", <<RealEvalResult(evalConfig, call, outcome)>>, NoError)

\* Variant: the update keeps nothing of what was there.
OtherEvalsDropped(results, name) == SelectSeq(results, LAMBDA r : FALSE)

\* prev.filter(r => r.evalId !== name)
OtherEvals(results, name) == SelectSeq(results, LAMBDA r : r.evalId # name)

\* The entries handleRunEval puts first: one for each model result, loading
\* where there is a response.
LoadingEntries(evalConfig, results) ==
  [k \in 1..Len(results) |->
     EvalResult(evalConfig.name, results[k].model.id, "",
                results[k].response # NoData, "")]

\* The two early returns of handleRunEval.
ReturnsAtOnce(evalConfig) ==
  evalConfig.type # "llm-judge" \/ evalConfig.model = NoModel

\* The model results a judge call is made for, whatever their response.
TargetsUnfiltered(results) == results

\* modelResults.filter(result => result.response !== null)
Targets(results) == SelectSeq(results, LAMBDA r : r.response # NoData)

\* handleRunEval(evalConfig) as made in the render c, up to its await: whether
\* it returns at once, the evalResults it leaves and the calls it makes.
RunEvalStart(evalConfig, c, results) ==
  IF ReturnsAtOnce(evalConfig)
    THEN [returns |-> TRUE, evalResults |-> results, calls |-> <<>>]
  ELSE LET targets == Targets(c.modelResults)
       IN [returns |-> FALSE,
           evalResults |-> OtherEvals(results, evalConfig.name)
                             \o LoadingEntries(evalConfig, c.modelResults),
           calls |-> [k \in 1..Len(targets) |->
                        EvalCall(evalConfig, c, targets[k])]]

\* One handleRunEval in progress, made in the render c: its config, the
\* prompt and the model results it read, its judge calls, and, when the
\* auto-run timer started it, the evaluations the timer's loop has still to
\* run (rest, with the render they are run in) and the modelResults that
\* the run which set the timer produced.
EvalRun(evalConfig, c, made, auto, rest, produced) ==
  [config |-> evalConfig, input |-> c.prompt, calls |-> made,
   read |-> c.modelResults, auto |-> auto, rest |-> rest,
   render |-> IF Len(rest) = 0 THEN NoClosure ELSE c,
   produced |-> produced]

RECURSIVE SkipReturning(_)
\* The loop of the auto-run timer over evaluations that return at once: it
\* goes on to the next within the same task.
SkipReturning(configs) ==
  IF Len(configs) = 0 THEN <<>>
  ELSE IF ReturnsAtOnce(configs[1]) THEN SkipReturning(Tail(configs))
  ELSE configs

\* The loop of the auto-run timer from the evaluations configs on, made in
\* the render c: the first evaluation that does not return at once is
\* started and awaited.
LoopFrom(configs, c, results, produced) ==
  LET todo == SkipReturning(configs) IN
    IF Len(todo) = 0 THEN [evalResults |-> results, started |-> <<>>]
    ELSE LET start == RunEvalStart(todo[1], c, results) IN
           [evalResults |-> start.evalResults,
            started |-> <<EvalRun(todo[1], c, start.calls, TRUE, Tail(todo),
                                  produced)>>]

\* handleAddEval
HandleAddEval(evalConfig) ==
  /\ evals' = Append(evals, evalConfig)
  /\ answer' = NoAnswer
  /\ UNCHANGED <<evalResults, autoRunEvals, evalRuns, closure, timers>>
  /\ UNCHANGED <<registryVars, env, homeVars, providers>>

\* What the dialog can submit for the evaluation opened in it: the same
\* config again, the config under another name, and for a judge the config
\* with another template.
EditsOf(opened) ==
  {opened, [opened EXCEPT !.name = "renamed"]}
    \cup (IF opened.type = "llm-judge"
            THEN {[opened EXCEPT !.prompt = "Rate {output}"]}
          ELSE {})

\* handleEditEval(submitted), called by the dialog that was opened for the
\* k-th evaluation.
HandleEditEval(k, submitted) ==
  /\ evals' = [j \in 1..Len(evals) |->
                 IF evals[j].name = submitted.name THEN submitted
                 ELSE evals[j]]
  /\ evalResults' = OtherEvals(evalResults, submitted.name)
  /\ answer' = [Answer("handleEditEval", <<k, evals[k], submitted>>,
                        Promise("fulfilled", <<>>, NoError))
                  EXCEPT !.before = evals]
  /\ UNCHANGED <<autoRunEvals, evalRuns, closure, timers, providers>>
  /\ UNCHANGED <<registryVars, env, homeVars>>

\* The Run Eval button of a row is there when the model has a response and
\* the evaluation no result for it, and is disabled while a run goes on.
CanRunEval(evalConfig) ==
  /\ ~isRunning
  /\ \E k \in 1..Len(modelResults) :
       /\ modelResults[k].response # NoData
       /\ ~\E j \in 1..Len(evalResults) :
            /\ evalResults[j].evalId = evalConfig.name
            /\ evalResults[j].modelId = modelResults[k].model.id

\* handleRunEval(evalConfig) from the Run Eval button, up to its await.
HandleRunEval(evalConfig) ==
  /\ CanRunEval(evalConfig)
  /\ LET start == RunEvalStart(evalConfig, Render, evalResults) IN
       /\ evalResults' = start.evalResults
       /\ evalRuns' = IF start.returns THEN evalRuns
                      ELSE Append(evalRuns,
                                  EvalRun(evalConfig, Render, start.calls,
                                          FALSE, <<>>, <<>>))
       /\ answer' = Answer("handleRunEval", <<evalConfig>>,
                           IF start.returns
                             THEN Promise("fulfilled", <<>>, NoError)
                           ELSE Promise("pending", <<>>, NoError))
  /\ UNCHANGED <<evals, autoRunEvals, closure, timers, providers>>
  /\ UNCHANGED <<registryVars, env, homeVars>>

\* The fetch of a judge call settles.
EvalFetchSettles(r, k, outcome) ==
  /\ evalRuns[r].calls[k].real
  /\ evalRuns[r].calls[k].promise.st = "pending"
  /\ evalRuns' = [evalRuns EXCEPT ![r].calls[k].promise =
                    EvalCallback(evalRuns[r].config, evalRuns[r].calls[k],
                                 outcome)]
  /\ UNCHANGED <<evals, evalResults, autoRunEvals, closure, timers>>
  /\ UNCHANGED <<registryVars, env, homeVars, adminVars>>

\* The timer of a sample judge call fires.
EvalTimerFires(r, k, text) ==
  /\ ~evalRuns[r].calls[k].real
  /\ evalRuns[r].calls[k].promise.st = "pending"
  /\ evalRuns' = [evalRuns EXCEPT ![r].calls[k].promise =
                    Promise("fulfilled",
                            <<EvalResult(evalRuns[r].config.name,
                                         evalRuns[r].calls[k].modelId, text,
                                         FALSE, "")>>, NoError)]
  /\ UNCHANGED <<evals, evalResults, autoRunEvals, closure, timers>>
  /\ UNCHANGED <<registryVars, env, homeVars, adminVars>>

\* All but the r-th element.
Without(seq, r) ==
  SubSeq(seq, 1, r - 1) \o SubSeq(seq, r + 1, Len(seq))

\* handleRunEval after its await of Promise.all: the final update, and
\* when the auto-run timer's loop awaited this call the loop goes on.  Were
\* Promise.all to reject, the call would end there and the loop with it.
EvalFinish(r) ==
  /\ LET all == PromiseAll([k \in 1..Len(evalRuns[r].calls) |->
                              evalRuns[r].calls[k].promise])
         updated == OtherEvals(evalResults, evalRuns[r].config.name)
                      \o all.value
         loop == LoopFrom(evalRuns[r].rest, evalRuns[r].render, updated,
                          evalRuns[r].produced)
     IN /\ all.st # "pending"
        /\ evalResults' = IF all.st = "fulfilled" THEN loop.evalResults
                          ELSE evalResults
        /\ evalRuns' = IF all.st = "fulfilled"
                         THEN Without(evalRuns, r) \o loop.started
                       ELSE Without(evalRuns, r)
  /\ answer' = NoAnswer
  /\ UNCHANGED <<evals, autoRunEvals, closure, timers, providers>>
  /\ UNCHANGED <<registryVars, env, homeVars>>

\* The auto-run timer fires: its callback runs handleRunEval, as made in the
\* render of the click on run, for each evaluation in turn.
AutoRunFires(t) ==
  /\ LET loop == LoopFrom(timers[t].closure.evals, timers[t].closure,
                          evalResults, timers[t].produced)
     IN /\ evalResults' = loop.evalResults
        /\ evalRuns' = evalRuns \o loop.started
  /\ timers' = Without(timers, t)
  /\ answer' = NoAnswer
  /\ UNCHANGED <<evals, autoRunEvals, closure, providers>>
  /\ UNCHANGED <<registryVars, env, homeVars>>

HomeInit ==
  /\ evals = <<>>
  /\ evalResults = <<>>
  /\ autoRunEvals = FALSE
  /\ evalRuns = <<>>
  /\ closure = NoClosure
  /\ timers = <<>>
  /\ homePrompt = ""
  /\ selectedModels = DefaultModels
  /\ modelResults = FreshResults(DefaultModels)
  /\ isRunning = FALSE
  /\ useRealAPI = FALSE
  /\ run = <<>>

RegistryInit ==
  /\ providers = [k \in 1..Len(RegisteredProviders) |->
                   Entry(RegisteredProviders[k], RegisteredProviders[k], k)]
  /\ answer = NoAnswer
  /\ config = [p \in ProviderNames |-> [apiKey |-> ""]]
  /\ phase = "idle"
  /\ kind = "none"
  /\ modelIds = <<>>
  /\ prompt = ""
  /\ calls = <<>>
  /\ result = Promise("pending", <<>>, NoError)

Init ==
  /\ RegistryInit
  /\ HomeInit
  /\ env \in {{}, EnvVars}

Next ==
  \/ \E p \in AdapterNames, key \in ApiKeys : Initialize(p, key)
  \/ \E ids \in IdLists, text \in Prompts : CompareModels(ids, text)
  \/ \E k \in InFlight :
       \E outcome \in FetchOutcomes(calls[k].request) : FetchSettles(k, outcome)
  \/ Return

Spec == Init /\ [][Next]_vars

(***************************************************************************)
(* An adapter's complete() called on its own, under every environment.     *)
(***************************************************************************)
InitAdapter ==
  /\ RegistryInit
  /\ HomeInit
  /\ env \in SUBSET EnvVars

NextAdapter ==
  \/ \E p \in AdapterNames, key \in ApiKeys : Initialize(p, key)
  \/ \E p \in AdapterNames, id \in RequestIds, text \in Prompts :
       DirectComplete(p, id, text)
  \/ \E k \in InFlight :
       \E outcome \in FetchOutcomes(calls[k].request) : FetchSettles(k, outcome)
  \/ Return

SpecAdapter == InitAdapter /\ [][NextAdapter]_vars

(***************************************************************************)
(* The Home page on its own.                                               *)
(***************************************************************************)
InitHome ==
  /\ RegistryInit
  /\ HomeInit
  /\ env \in {{}, EnvVars}

NextHome ==
  \/ \E text \in HomePrompts : SetPrompt(text)
  \/ \E b \in BOOLEAN : SetUseRealAPI(b)
  \/ \E model \in ToggleChoices : HandleModelToggle(model)
  \/ HandleRun
  \/ \E k \in 1..Len(run) :
       \E outcome \in FetchOutcomes(run[k].request) : RunFetchSettles(k, outcome)
  \/ \E k \in 1..Len(run) : \E draw \in SampleDraws : RunTimerFires(k, draw)
  \/ RunFinish
  \/ HandleClear

SpecHome == InitHome /\ [][NextHome]_vars

(***************************************************************************)
(* The Home page's run, clear and model toggle, with one prompt.  The      *)
(* event loop runs the continuation of an await whose promise has settled: *)
(* handleRun goes on once Promise.all has.                                 *)
(***************************************************************************)
\* What a fetch settles with here: the relay's answers and a network failure.
ToggleOutcomes(req) == RelayAnswers(req) \cup {FetchRejects("Failed to fetch")}

NextToggle ==
  \/ SetPrompt("Explain recursion")
  \/ \E b \in BOOLEAN : SetUseRealAPI(b)
  \/ \E model \in ToggleChoices : HandleModelToggle(model)
  \/ HandleRun
  \/ \E k \in 1..Len(run) :
       \E outcome \in ToggleOutcomes(run[k].request) :
         RunFetchSettles(k, outcome)
  \/ \E k \in 1..Len(run) : RunTimerFires(k, AutoDraw)
  \/ RunFinish
  \/ HandleClear

SpecToggle == InitHome /\ [][NextToggle]_vars /\ WF_vars(RunFinish)

(***************************************************************************)
(* The Home page with its evaluations, for the default selection.          *)
(***************************************************************************)
InitEval ==
  /\ RegistryInit
  /\ HomeInit
  /\ env = EnvVars

NextEval ==
  \/ \E text \in EvalPrompts : SetPrompt(text)
  \/ \E b \in BOOLEAN : SetUseRealAPI(b)
  \/ HandleRun
  \/ \E k \in 1..Len(run) :
       \E outcome \in RelayAnswers(run[k].request) : RunFetchSettles(k, outcome)
  \/ \E k \in 1..Len(run) : RunTimerFires(k, AutoDraw)
  \/ RunFinish
  \/ /\ Len(evals) < MaxEvals
     /\ \E evalConfig \in EvalConfigs : HandleAddEval(evalConfig)
  \/ /\ Len(evalRuns) < MaxEvalRuns
     /\ \E k \in 1..Len(evals) : HandleRunEval(evals[k])
  \/ \E r \in 1..Len(evalRuns) : \E k \in 1..Len(evalRuns[r].calls) :
       \E outcome \in RelayAnswers(evalRuns[r].calls[k].request) :
         EvalFetchSettles(r, k, outcome)
  \/ \E r \in 1..Len(evalRuns) : \E k \in 1..Len(evalRuns[r].calls) :
       \E text \in EvalDraws : EvalTimerFires(r, k, text)
  \/ \E r \in 1..Len(evalRuns) : EvalFinish(r)

SpecEval == InitEval /\ [][NextEval]_vars

(***************************************************************************)
(* The Home page in sample mode with a judge evaluation: auto-run, clear   *)
(* and the editing of the evaluation.                                      *)
(***************************************************************************)
\* The judge evaluation of EvalConfigs.
JudgeConfigs == {c \in EvalConfigs : c.type = "llm-judge"}

InitAuto ==
  /\ RegistryInit
  /\ HomeInit
  /\ env = EnvVars

NextAuto ==
  \/ \E text \in EvalPrompts : SetPrompt(text)
  \/ /\ Len(timers) < MaxTimers
     /\ HandleRun
  \/ \E k \in 1..Len(run) : RunTimerFires(k, AutoDraw)
  \/ RunFinish
  \/ HandleClear
  \/ \E b \in BOOLEAN : SetAutoRunEvals(b)
  \/ /\ Len(evals) < MaxEvals
     /\ \E evalConfig \in JudgeConfigs : HandleAddEval(evalConfig)
  \/ \E k \in 1..Len(evals) :
       \E submitted \in EditsOf(evals[k]) : HandleEditEval(k, submitted)
  \/ /\ Len(evalRuns) < MaxEvalRuns
     /\ \E k \in 1..Len(evals) : HandleRunEval(evals[k])
  \/ /\ Len(evalRuns) < MaxEvalRuns
     /\ \E t \in 1..Len(timers) : AutoRunFires(t)
  \/ \E r \in 1..Len(evalRuns) : \E k \in 1..Len(evalRuns[r].calls) :
       \E text \in EvalDraws : EvalTimerFires(r, k, text)
  \/ \E r \in 1..Len(evalRuns) : EvalFinish(r)

SpecAuto == InitAuto /\ [][NextAuto]_vars

(***************************************************************************)
(* The Home page in sample mode with two judge evaluations run side by     *)
(* side.                                                                   *)
(***************************************************************************)
\* Two judges under different names.
PairConfigs ==
  JudgeConfigs \cup
    {EvalConfig("llm-judge", "second", "Rate {output}", AnthropicModels[1])}

NextPair ==
  \/ SetPrompt("Explain recursion")
  \/ HandleRun
  \/ \E k \in 1..Len(run) : RunTimerFires(k, AutoDraw)
  \/ RunFinish
  \/ /\ Len(evals) < MaxPairEvals
     /\ \E evalConfig \in PairConfigs : HandleAddEval(evalConfig)
  \/ /\ Len(evalRuns) < MaxPairRuns
     /\ \E k \in 1..Len(evals) : HandleRunEval(evals[k])
  \/ \E r \in 1..Len(evalRuns) : \E k \in 1..Len(evalRuns[r].calls) :
       \E text \in EvalDraws : EvalTimerFires(r, k, text)
  \/ \E r \in 1..Len(evalRuns) : EvalFinish(r)

SpecPair == InitAuto /\ [][NextPair]_vars

(***************************************************************************)
(* The Home page in sample mode with the judge evaluation and prompts      *)
(* that hold the placeholders themselves.                                  *)
(***************************************************************************)
\* A plain prompt and one that holds the placeholders.
PlaceholderPrompts == {"Explain recursion", "Say {input} {output}"}

NextPlaceholder ==
  \/ \E text \in PlaceholderPrompts : SetPrompt(text)
  \/ HandleRun
  \/ \E k \in 1..Len(run) : RunTimerFires(k, AutoDraw)
  \/ RunFinish
  \/ /\ Len(evals) < MaxEvals
     /\ \E evalConfig \in JudgeConfigs : HandleAddEval(evalConfig)
  \/ /\ Len(evalRuns) < MaxEvalRuns
     /\ \E k \in 1..Len(evals) : HandleRunEval(evals[k])
  \/ \E r \in 1..Len(evalRuns) : \E k \in 1..Len(evalRuns[r].calls) :
       \E text \in EvalDraws : EvalTimerFires(r, k, text)
  \/ \E r \in 1..Len(evalRuns) : EvalFinish(r)

SpecPlaceholder == InitAuto /\ [][NextPlaceholder]_vars

(***************************************************************************)
(* The registry and the adapters' synchronous methods.                     *)
(***************************************************************************)
\* Token counts: none, one, a whole thousand and a thousand and a half.
TokenPairs == {<<0, 0>>, <<1000, 1000>>, <<1, 1500>>, <<1500, 1>>}

\* A value returned by a synchronous method, or the error it throws.
Returns(value) == Promise("fulfilled", value, NoError)

Throws(error) == Promise("rejected", <<>>, error)

\* estimateCost with its throw for a model the adapter does not list.
EstimateCostResult(p, id, inputTokens, outputTokens) ==
  IF GetModel(p, id) = NoModel
    THEN Throws(ProviderError("Model not found: " \o id, ""))
  ELSE Returns(EstimateCost(p, id, inputTokens, outputTokens))

\* Map.prototype.set: a known key keeps its place, a new one goes last.
MapSet(map, name, adapter) ==
  LET set == IF \E k \in 1..Len(map) : map[k].name = name
               THEN [k \in 1..Len(map) |->
                       IF map[k].name = name
                         THEN Entry(name, adapter, Len(map) + 1)
                       ELSE map[k]]
             ELSE Append(map, Entry(name, adapter, Len(map) + 1))
  IN [k \in 1..Len(set) |->
        [set[k] EXCEPT !.at =
           Cardinality({j \in 1..Len(set) : set[j].at <= set[k].at})]]

\* The names configureProviders is called with and the argument itself:
\* the entries of the configs object, in the order of its keys.
ConfigNames == {"openai", "newprovider"}

ConfigLists ==
  LET n == Cardinality(ConfigNames)
      lists == UNION {[1..k -> ConfigNames \X ApiKeys] : k \in 0..n}
  IN {l \in lists : \A i, j \in 1..Len(l) : i # j => l[i][1] # l[j][1]}

\* configureProvider for one entry, run up to its await: the config it
\* stores and the promise it returns.  tick tells how late the promise
\* rejects: 0 for the throw before the await, 1 for the one after it.
ConfigureProvider(cfg, name, key) ==
  IF AdapterOf(name) = ""
    THEN [config |-> cfg, tick |-> 0,
          promise |-> Promise("rejected", <<>>,
                        PlainError("Provider not found: " \o name))]
  ELSE [config |-> [cfg EXCEPT ![name] = [apiKey |-> key]], tick |-> 1,
        promise |-> InitializePromise(name, key)]

RECURSIVE ConfigureFrom(_, _, _)
\* Variant: the entries are configured one after the other and the first
\* failure ends the loop.
ConfigureUntilFailure(cfg, entries, k) ==
  IF k > Len(entries) THEN [config |-> cfg, made |-> <<>>]
  ELSE LET one == ConfigureProvider(cfg, entries[k][1], entries[k][2]) IN
         IF one.promise.st = "rejected"
           THEN [config |-> cfg, made |-> <<one>>]
         ELSE LET rest == ConfigureFrom(one.config, entries, k + 1)
              IN [config |-> rest.config, made |-> <<one>> \o rest.made]

\* The map of configureProviders over the entries from the k-th on: the
\* config left behind and the calls made.
ConfigureFrom(cfg, entries, k) ==
  IF k > Len(entries) THEN [config |-> cfg, made |-> <<>>]
  ELSE LET one == ConfigureProvider(cfg, entries[k][1], entries[k][2])
           rest == ConfigureFrom(one.config, entries, k + 1)
       IN [config |-> rest.config, made |-> <<one>> \o rest.made]

\* await Promise.all(configPromises): the rejection that comes first wins,
\* those of one tick in the order of the entries.
RejectsFirst(made) ==
  LET failed == {k \in 1..Len(made) : made[k].promise.st = "rejected"}
      first == CHOOSE k \in failed :
                 \A j \in failed :
                   \/ made[k].tick < made[j].tick
                   \/ made[k].tick = made[j].tick /\ k <= j
  IN IF failed = {} THEN Promise("fulfilled", <<>>, NoError)
     ELSE Promise("rejected", <<>>, made[first].promise.error)

\* The quantity a reduce of getCheapestModels compares.
Price(model, by) ==
  CASE by = "input"  -> model.inputCostPer1kTokens
    [] by = "output" -> model.outputCostPer1kTokens
    [] by = "total"  ->
         model.inputCostPer1kTokens + model.outputCostPer1kTokens

RECURSIVE Reduce(_, _, _, _)
\* Variant: a model that is as cheap as the best so far replaces it.
ReduceLast(models, by, best, k) ==
  IF k > Len(models) THEN best
  ELSE Reduce(models, by,
              IF Price(models[k], by) <= Price(best, by)
                THEN models[k] ELSE best, k + 1)

\* A reduce of getCheapestModels from the k-th model on: the accumulator is
\* replaced only by a model that is cheaper.
Reduce(models, by, best, k) ==
  IF k > Len(models) THEN best
  ELSE Reduce(models, by,
              IF Price(models[k], by) < Price(best, by)
                THEN models[k] ELSE best, k + 1)

\* getCheapestModels; reduce throws on an empty array.
GetCheapestModels ==
  LET models == GetAllModels IN
    IF Len(models) = 0
      THEN Throws([name |-> "TypeError", code |-> "",
                   message |-> "Reduce of empty array with no initial value"])
    ELSE Returns(
      [cheapestInput |-> Reduce(models, "input", models[1], 2),
       cheapestOutput |-> Reduce(models, "output", models[1], 2),
       mostCostEffective |-> Reduce(models, "total", models[1], 2)])

RegisterProvider(name, adapter) ==
  /\ phase = "idle"
  /\ providers' = MapSet(providers, name, adapter)
  /\ config' = [config EXCEPT ![name] = [apiKey |-> ""]]
  /\ answer' = Answer("registerProvider", <<name, adapter>>, Returns(<<>>))
  /\ UNCHANGED <<env, phase, kind, modelIds, prompt, calls, result, homeVars, evalVars>>

\* reset: the Map is cleared and the constructor's providers are made anew.
Reset ==
  /\ phase = "idle"
  /\ providers' = [k \in 1..Len(RegisteredProviders) |->
                     Entry(RegisteredProviders[k], RegisteredProviders[k], k)]
  /\ config' = [p \in ProviderNames |-> [apiKey |-> ""]]
  /\ answer' = Answer("reset", <<>>, Returns(<<>>))
  /\ UNCHANGED <<env, phase, kind, modelIds, prompt, calls, result, homeVars, evalVars>>

\* configureProviders(configs), with the await of Promise.all.
ConfigureProviders(entries) ==
  /\ phase = "idle"
  /\ LET done == ConfigureFrom(config, entries, 1) IN
       /\ config' = done.config
       /\ answer' = Answer("configureProviders", entries,
                           RejectsFirst(done.made))
  /\ UNCHANGED <<env, phase, kind, modelIds, prompt, calls, result, homeVars, evalVars,
                 providers>>

\* findModel(id)
CallFindModel(id) ==
  /\ phase = "idle"
  /\ answer' = Answer("findModel", <<id>>, Returns(FindModel(id)))
  /\ UNCHANGED <<registryVars, env, homeVars, evalVars, providers>>

\* getCheapestModels()
CallGetCheapestModels ==
  /\ phase = "idle"
  /\ answer' = Answer("getCheapestModels", <<>>, GetCheapestModels)
  /\ UNCHANGED <<registryVars, env, homeVars, evalVars, providers>>

\* provider.estimateCost(id, inputTokens, outputTokens)
CallEstimateCost(p, id, tokens) ==
  /\ phase = "idle"
  /\ AdapterOf(p) # ""
  /\ answer' = Answer("estimateCost", <<p, id, tokens[1], tokens[2]>>,
                      EstimateCostResult(p, id, tokens[1], tokens[2]))
  /\ UNCHANGED <<registryVars, env, homeVars, evalVars, providers>>

InitRegistry ==
  /\ RegistryInit
  /\ HomeInit
  /\ env = {}

NextRegistry ==
  \/ \E name \in {"anthropic", "newprovider"},
        adapter \in {"openai", "openrouter"} : RegisterProvider(name, adapter)
  \/ Reset
  \/ \E p \in ConfigNames, key \in ApiKeys : Initialize(p, key)
  \/ \E entries \in ConfigLists : ConfigureProviders(entries)
  \/ \E id \in RequestIds : CallFindModel(id)
  \/ CallGetCheapestModels
  \/ \E p \in {"anthropic", "openai"},
        id \in {"claude-3-5-sonnet-20241022", "gpt-4o", "nonexistent-model"},
        tokens \in TokenPairs : CallEstimateCost(p, id, tokens)

SpecRegistry == InitRegistry /\ [][NextRegistry]_vars

(***************************************************************************)
(* Properties of compareModels (checked under Spec)                        *)
(***************************************************************************)
\* Some registered adapter lists this id.
Known(id) ==
  \E p \in AdapterNames : \E k \in 1..Len(Models(p)) : Models(p)[k].id = id

\* One of the environment keys that adapter p accepts in place of a stored
\* credential is set.
HasFallbackKey(p) ==
  \/ (p = "anthropic"
        /\ env \cap {"ANTHROPIC_API_KEY", "OPENROUTER_API_KEY"} # {})
  \/ (p = "openai"
        /\ env \cap {"OPENAI_API_KEY", "OPENROUTER_API_KEY"} # {})
  \/ (p = "openrouter" /\ "OPENROUTER_API_KEY" \in env)

\* The adapter of this id can start its relay call: it has a credential, or
\* an environment key it accepts is set.
CanStart(id) ==
  \E p \in AdapterNames :
    /\ \E k \in 1..Len(Models(p)) : Models(p)[k].id = id
    /\ (config[p].apiKey # "" \/ HasFallbackKey(p))

Returned == kind = "compare" /\ phase = "returned"

\* C1: for a non-empty id list (duplicates included) and a valid prompt,
\* compareModels returns exactly Len(modelIds) outcomes and the outcome at
\* index i carries modelIds[i], in whatever order the calls settled.
C1_OrderedOutcomes ==
  (Returned /\ Len(modelIds) > 0 /\ Trim(prompt) # "") =>
    /\ result.st = "fulfilled"
    /\ Len(result.value) = Len(modelIds)
    /\ \A i \in 1..Len(modelIds) : result.value[i].modelId = modelIds[i]

\* The same id twice, both sent to the relay, the first failed and the
\* second succeeded.
C1_Witness ==
  /\ Returned /\ Trim(prompt) # ""
  /\ Len(modelIds) = 2 /\ modelIds[1] = modelIds[2]
  /\ calls[1].fetches = 1 /\ calls[2].fetches = 1
  /\ result.st = "fulfilled"
  /\ result.value[1].error # NoError
  /\ result.value[2].error = NoError

\* C2: whichever calls fail, compareModels resolves and never rejects; the
\* slot of each failed call carries its error and the slot of every other
\* call carries its response.
C2_PartialFailure ==
  /\ kind = "compare" => result.st # "rejected"
  /\ Returned =>
       /\ result.st = "fulfilled"
       /\ Len(result.value) = Len(calls)
       /\ \A i \in 1..Len(calls) :
            /\ calls[i].promise.st = "rejected" =>
                 /\ result.value[i].error = calls[i].promise.error
                 /\ result.value[i].error # NoError
                 /\ result.value[i].response = NoData
            /\ calls[i].promise.st = "fulfilled" =>
                 /\ result.value[i].response = calls[i].promise.value
                 /\ result.value[i].error = NoError

\* A relay failure in one slot beside a success in another.
C2_Witness ==
  /\ Returned
  /\ \E i, j \in 1..Len(calls) :
       /\ calls[i].promise.st = "rejected" /\ calls[i].fetches = 1
       /\ calls[j].promise.st = "fulfilled"
       /\ result.value[j].response.content = "R1"

\* C3: an id that no registered adapter knows gets a failed outcome with a
\* model-not-found error, no completion call and no relay call; a sibling
\* id whose adapter can start is sent to the relay all the same and its
\* outcome is that of its own call.
C3_UnknownModel ==
  kind = "compare" =>
    \A i \in 1..Len(modelIds) :
      ~Known(modelIds[i]) =>
        /\ Len(calls) = Len(modelIds)
        /\ calls[i].provider = ""
        /\ calls[i].fetches = 0
        /\ calls[i].request = NoRequest
        /\ phase = "returned" =>
             /\ result.st = "fulfilled"
             /\ Len(result.value) = Len(modelIds)
             /\ result.value[i] =
                  Outcome(modelIds[i], NoData,
                          PlainError("Model not found: " \o modelIds[i]))
        /\ \A j \in 1..Len(modelIds) :
             CanStart(modelIds[j]) =>
               /\ calls[j].fetches = 1
               /\ (phase = "returned" /\ calls[j].promise.st = "fulfilled") =>
                    result.value[j] =
                      Outcome(modelIds[j], calls[j].promise.value, NoError)

\* An unknown id first, and a sibling after it that succeeded.
C3_Witness ==
  /\ Returned
  /\ Len(modelIds) = 2
  /\ ~Known(modelIds[1])
  /\ calls[2].promise.st = "fulfilled"

\* C4: compare rejects with a validation error, before any completion call
\* is dispatched, whenever the id list is empty or the prompt is empty after
\* trimming.
C4_ValidationRejects ==
  (kind = "compare" /\ (Len(modelIds) = 0 \/ Trim(prompt) = "")) =>
    /\ \A i \in 1..Len(calls) : calls[i].fetches = 0
    /\ phase = "returned" =>
         result.st = "rejected" /\ result.error.name = "ValidationError"

\* C5: compareModels returns only after every call it issued has settled; a
\* failed call does not make it return while another is in flight, and no
\* outcome is missing.
C5_WaitsForAll ==
  Returned =>
    /\ InFlight = {}
    /\ result.st = "fulfilled"
    /\ Len(result.value) = Len(modelIds)

\* The first call failed at the relay and the second one still completed.
C5_Witness ==
  /\ Returned
  /\ Len(calls) = 2
  /\ calls[1].promise.st = "rejected" /\ calls[1].fetches = 1
  /\ calls[2].promise.st = "fulfilled"

\* C6: every id whose adapter can start has its relay call issued as soon
\* as compareModels has been called, whatever the state of the other calls:
\* no call waits for an earlier one to settle.
C6_AllIssuedTogether ==
  kind = "compare" =>
    /\ Len(calls) = Len(modelIds)
    /\ \A j \in 1..Len(modelIds) :
         CanStart(modelIds[j]) => calls[j].fetches = 1

\* All the calls of a list of two or more ids are in flight at once.
C6_Witness ==
  /\ kind = "compare" /\ phase = "awaiting"
  /\ Len(modelIds) >= 2
  /\ InFlight = 1..Len(modelIds)

\* C7: within one compareModels call at most one relay call is made per
\* entry of the id list; a failed attempt is not retried.
C7_SingleAttempt ==
  kind = "compare" =>
    /\ Len(calls) = Len(modelIds)
    /\ \A i \in 1..Len(calls) : calls[i].fetches <= 1

\* A call that failed at the relay, with its one attempt.
C7_Witness ==
  /\ Returned
  /\ \E i \in 1..Len(calls) :
       /\ calls[i].outcome.kind # "none"
       /\ calls[i].promise.st = "rejected"
       /\ calls[i].fetches = 1

(***************************************************************************)
(* Properties of the adapters' complete() (checked under SpecAdapter)      *)
(***************************************************************************)
NotConfiguredMessage(p) ==
  DisplayName(p) \o " provider is not configured. Please provide an API key."

RelayFailed(o) == o.kind = "reject" \/ ~o.ok \/ ~o.json

StartsWith(s, prefix) ==
  Len(s) >= Len(prefix) /\ SubSeq(s, 1, Len(prefix)) = prefix

Delivered(r) ==
  /\ ~r.isLoading
  /\ r.error = ""
  /\ r.response # NoData
  /\ r.response.metadata.provider # ""

\* C10: every successful completion that the Home page shows carries the
\* cost estimateCost computes from the token counts the relay reported for
\* that request, never the cost the relay supplied.
C10_CostIsEstimate ==
  \A k \in 1..Len(modelResults) :
    Delivered(modelResults[k]) =>
      modelResults[k].response.cost =
        EstimateCost(modelResults[k].model.provider, modelResults[k].model.id,
                     modelResults[k].response.inputTokens,
                     modelResults[k].response.outputTokens)

\* C11: the duration of a completion an adapter returns is the round-trip
\* time around the adapter's relay call, not the duration the relay reports.
C11_DurationIsRoundTrip ==
  (/\ kind = "direct"
   /\ Len(calls) = 1
   /\ calls[1].promise.st = "fulfilled") =>
     calls[1].promise.value.duration = calls[1].outcome.elapsed

(***************************************************************************)
(* Properties of the registry and the adapters' synchronous methods        *)
(* (checked under SpecRegistry)                                            *)
(***************************************************************************)
\* The models of the catalog registered under p that carry this id.
Listed(p, id) ==
  {Models(p)[k] : k \in {j \in 1..Len(Models(p)) : Models(p)[j].id = id}}

\* C12: for a model id the adapter knows and non-negative token counts,
\* estimateCost is in/1000 * inputPrice + out/1000 * outputPrice; for 1000 and
\* 1000 tokens it is inputPrice + outputPrice and for no tokens it is 0.
\* (Costs are in 1e-8 USD and prices in 1e-5 USD, hence the factor 1000.)
C12_EstimateCostFormula ==
  answer.op = "estimateCost" =>
    \A model \in Listed(answer.args[1], answer.args[2]) :
      LET inputTokens == answer.args[3]
          outputTokens == answer.args[4]
      IN /\ answer.promise.st = "fulfilled"
         /\ answer.promise.value =
              inputTokens * model.inputCostPer1kTokens
                + outputTokens * model.outputCostPer1kTokens
         /\ (inputTokens = 1000 /\ outputTokens = 1000) =>
              answer.promise.value =
                1000 * (model.inputCostPer1kTokens
                          + model.outputCostPer1kTokens)
         /\ (inputTokens = 0 /\ outputTokens = 0) => answer.promise.value = 0

C12_Witness ==
  /\ answer.op = "estimateCost"
  /\ Listed(answer.args[1], answer.args[2]) # {}
  /\ answer.args[3] = 1
  /\ answer.args[4] = 1500
  /\ answer.promise.st = "fulfilled"
  /\ answer.promise.value > 0

\* C13: after a configure call on an adapter, whether it succeeded or failed,
\* isConfigured() is true exactly when the adapter needs no credential or
\* the config the call left stored holds a non-empty one.
C13_IsConfiguredIffCredential ==
  /\ answer.op = "initialize" =>
       (IsConfigured(answer.args[1]) <=>
          (~RequiresApiKey(answer.args[1]) \/ answer.args[2] # ""))
  /\ answer.op = "configureProviders" =>
       \A k \in 1..Len(answer.args) :
         AdapterOf(answer.args[k][1]) # "" =>
           (IsConfigured(answer.args[k][1]) <=>
              (~RequiresApiKey(answer.args[k][1]) \/ answer.args[k][2] # ""))

\* A failed configure call on an adapter that held a credential.
C13_Witness ==
  /\ answer.op = "initialize"
  /\ answer.before # ""
  /\ answer.args[2] = ""
  /\ answer.promise.st = "rejected"
  /\ ~IsConfigured(answer.args[1])

\* C14: a configure call with the credential-bearing config the adapter
\* already holds leaves isConfigured() true, and no configure call changes
\* what getAllModels returns.
C14_ConfigureIdempotent ==
  [][/\ \A p \in ProviderNames, key \in ApiKeys :
          (answer'.op = "initialize" /\ answer'.args = <<p, key>>) =>
            /\ (key # "" /\ config[p].apiKey = key) => IsConfigured(p)'
            /\ GetAllModels' = GetAllModels
     /\ answer'.op = "configureProviders" => GetAllModels' = GetAllModels]_vars

\* The second of two configure calls with the same credential has returned.
C14_Witness ==
  /\ answer.op = "initialize"
  /\ answer.args[2] # ""
  /\ answer.before = answer.args[2]
  /\ answer.promise.st = "fulfilled"
  /\ IsConfigured(answer.args[1])

\* The places in the providers Map of the adapters that list this id.
Holders(id) ==
  {k \in 1..Len(providers) : GetModel(providers[k].name, id) # NoModel}

\* C15: when several registered adapters list the same id, findModel returns
\* the one that was registered first.
C15_FirstRegisteredWins ==
  (answer.op = "findModel" /\ Holders(answer.args[1]) # {}) =>
    \E k \in Holders(answer.args[1]) :
      /\ answer.promise.value = providers[k].name
      /\ \A j \in Holders(answer.args[1]) : providers[k].at <= providers[j].at

\* C16: in configureProviders the failure of one entry does not keep any
\* other entry from being configured, wherever the failing entry stands.
C16_OthersStillConfigured ==
  answer.op = "configureProviders" =>
    \A k \in 1..Len(answer.args) :
      AdapterOf(answer.args[k][1]) # "" =>
        config[answer.args[k][1]].apiKey = answer.args[k][2]

\* The first entry failed and a later one was applied.
C16_Witness ==
  /\ answer.op = "configureProviders"
  /\ answer.promise.st = "rejected"
  /\ Len(answer.args) = 2
  /\ AdapterOf(answer.args[1][1]) = ""
  /\ AdapterOf(answer.args[2][1]) # ""
  /\ answer.args[2][2] # ""
  /\ config[answer.args[2][1]].apiKey = answer.args[2][2]

\* The message of the failure of configuring name with key, "" for none.
FailureOf(name, key) ==
  ConfigureProvider(config, name, key).promise.error.message

\* C17: when two or more entries of configureProviders fail, the error raised
\* lists every failure.
C17_AggregateError ==
  (/\ answer.op = "configureProviders"
   /\ Cardinality({k \in 1..Len(answer.args) :
                     FailureOf(answer.args[k][1], answer.args[k][2]) # ""}) >= 2)
    => /\ answer.promise.st = "rejected"
       /\ \A k \in 1..Len(answer.args) :
            Includes(answer.promise.error.message,
                     FailureOf(answer.args[k][1], answer.args[k][2]))

\* The places in getAllModels of the models whose price sum is lowest.
Cheapest ==
  {k \in 1..Len(GetAllModels) :
     \A j \in 1..Len(GetAllModels) :
       GetAllModels[k].inputCostPer1kTokens
           + GetAllModels[k].outputCostPer1kTokens
         <= GetAllModels[j].inputCostPer1kTokens
              + GetAllModels[j].outputCostPer1kTokens}

\* C18: mostCostEffective is a model whose inputPrice + outputPrice is lowest
\* over getAllModels, and of several such models the one that comes first.
C18_CheapestFirstWins ==
  (answer.op = "getCheapestModels" /\ Len(GetAllModels) > 0) =>
    /\ answer.promise.st = "fulfilled"
    /\ \E k \in Cheapest :
         /\ answer.promise.value.mostCostEffective = GetAllModels[k]
         /\ \A j \in Cheapest : k <= j

\* Two models of different adapters tie on the lowest sum.
C18_Witness ==
  /\ answer.op = "getCheapestModels"
  /\ answer.promise.st = "fulfilled"
  /\ \E j, k \in Cheapest : GetAllModels[j].id # GetAllModels[k].id
  /\ answer.promise.value.mostCostEffective.id = "claude-3-haiku-20240307"

\* C29: an initialize call that fails for want of the credential has still
\* stored the config it was given: the adapter holds that config, and if it
\* was configured before the call it is not any more.
C29_FailedConfigureStored ==
  (answer.op = "initialize" /\ answer.promise.st = "rejected") =>
    /\ config[answer.args[1]] = [apiKey |-> answer.args[2]]
    /\ ~IsConfigured(answer.args[1])

\* The call that failed found the adapter configured.
C29_Witness ==
  /\ answer.op = "initialize"
  /\ answer.promise.st = "rejected"
  /\ answer.promise.error.name = "ProviderError"
  /\ answer.before # ""
  /\ config[answer.args[1]].apiKey = ""

(***************************************************************************)
(* Properties of the evaluations (checked under SpecEval)                  *)
(***************************************************************************)
\* C19: running an evaluation whose variant is not llm-judge fails with an
\* unsupported-evaluation error; it does not return as if nothing was asked.
C19_UnsupportedEvalFails ==
  (answer.op = "handleRunEval" /\ answer.args[1].type # "llm-judge") =>
    /\ answer.promise.st = "rejected"
    /\ answer.promise.error.name = "UnsupportedEvaluationError"

RECURSIVE Substituted(_, _, _, _)
\* The template from its k-th character on with every {input} given as the
\* text input and every {output} as the text output, character for character.
Substituted(template, input, output, k) ==
  LET brace == IndexOf(template, "{", k) IN
    IF brace = 0 THEN SubSeq(template, k, Len(template))
    ELSE SubSeq(template, k, brace - 1) \o
         (IF IndexOf(template, "{input}", brace) = brace
            THEN input \o Substituted(template, input, output,
                                      brace + Len("{input}"))
          ELSE IF IndexOf(template, "{output}", brace) = brace
            THEN output \o Substituted(template, input, output,
                                       brace + Len("{output}"))
          ELSE "{" \o Substituted(template, input, output, brace + 1))

\* C20: the judge prompt of every judge call holds no placeholder any more:
\* each {input} of the template stands replaced by the prompt and each
\* {output} by the response text of the model judged.
C20_NoPlaceholderLeft ==
  \A r \in 1..Len(evalRuns) : \A k \in 1..Len(evalRuns[r].calls) :
    /\ ~Includes(evalRuns[r].calls[k].judgePrompt, "{input}")
    /\ ~Includes(evalRuns[r].calls[k].judgePrompt, "{output}")
    /\ evalRuns[r].calls[k].judgePrompt =
         Substituted(evalRuns[r].config.prompt, evalRuns[r].input,
                     evalRuns[r].calls[k].output, 1)

\* The places in results of the entries of the evaluation name for the model
\* id.
EntriesOf(results, name, id) ==
  {j \in 1..Len(results) :
     results[j].evalId = name /\ results[j].modelId = id}

\* C21: when an evaluation run finishes, evalResults holds exactly one
\* outcome of that evaluation for each model the run read, and the outcome of
\* a model that had no response is an error.
C21_OneOutcomePerTarget ==
  [][\A r \in 1..Len(evalRuns) :
       evalRuns' = Without(evalRuns, r) =>
         \A k \in 1..Len(evalRuns[r].read) :
           LET entries == EntriesOf(evalResults', evalRuns[r].config.name,
                                    evalRuns[r].read[k].model.id)
           IN /\ Cardinality(entries) = 1
              /\ evalRuns[r].read[k].response = NoData =>
                   \A j \in entries : evalResults'[j].error # ""]_vars

\* C22: an evaluation run makes one judge call for each model result it read
\* that holds a response, and none for a model result without one.
C22_OneCallPerResponse ==
  \A r \in 1..Len(evalRuns) : \A k \in 1..Len(evalRuns[r].read) :
    Cardinality({j \in 1..Len(evalRuns[r].calls) :
                   evalRuns[r].calls[j].modelId
                     = evalRuns[r].read[k].model.id})
      = IF evalRuns[r].read[k].response # NoData THEN 1 ELSE 0

\* A run over one model that answered and one that failed.
C22_Witness ==
  \E r \in 1..Len(evalRuns) :
    /\ Len(evalRuns[r].calls) = 1
    /\ \E k \in 1..Len(evalRuns[r].read) :
         /\ evalRuns[r].read[k].response = NoData
         /\ evalRuns[r].read[k].error # ""

\* C23: the judge calls of a run are all started together, and when the run
\* finishes each model that had a response has exactly one outcome of the
\* evaluation, a text or an error, in the order of the calls, whatever
\* the other judge calls did.
C23_IndependentOutcomes ==
  [][/\ Len(evalRuns') > Len(evalRuns) =>
          \A k \in 1..Len(evalRuns'[Len(evalRuns')].calls) :
            evalRuns'[Len(evalRuns')].calls[k].promise.st = "pending"
     /\ \A r \in 1..Len(evalRuns) :
          evalRuns' = Without(evalRuns, r) =>
            LET made == evalRuns[r].calls
                mine == SelectSeq(evalResults',
                          LAMBDA e : e.evalId = evalRuns[r].config.name)
            IN /\ Len(mine) >= Len(made)
               /\ \A k \in 1..Len(made) :
                    LET entries == {j \in 1..Len(mine) :
                                      mine[j].modelId = made[k].modelId}
                    IN /\ Cardinality(entries) = 1
                       /\ \A j \in entries :
                            /\ ~mine[j].isLoading
                            /\ (mine[j].result # "") # (mine[j].error # "")
                            /\ \A i \in 1..Len(made) :
                                 \A h \in 1..Len(mine) :
                                   (i < k /\ mine[h].modelId = made[i].modelId)
                                     => h < j]_vars

\* One judge call of a finished run failed and a later one gave its text.
C23_Witness ==
  /\ evalRuns = <<>>
  /\ \E i, j \in 1..Len(evalResults) :
       /\ i < j
       /\ evalResults[i].evalId = evalResults[j].evalId
       /\ evalResults[i].error # ""
       /\ evalResults[j].result # ""
       /\ ~evalResults[j].isLoading

\* Every request of the run in progress has settled.
AllSettled ==
  /\ Len(run) > 0
  /\ \A k \in 1..Len(run) : run[k].promise.st # "pending"

\* C26 (under SpecToggle): whenever isRunning is false no entry of
\* modelResults is loading, under every interleaving of run, clear, the
\* model toggle and the settlements; and a run whose requests have all
\* settled comes to its end with isRunning false.
C26_NotRunningNotLoading ==
  /\ [](~isRunning =>
          \A k \in 1..Len(modelResults) : ~modelResults[k].isLoading)
  /\ (isRunning /\ AllSettled) ~> ~isRunning

\* A run has ended after the selection was toggled while it went on, and
\* left a result of its own beside the entry of a model it did not run.
C26_Witness ==
  /\ ~isRunning
  /\ Len(run) = 0
  /\ \E j, k \in 1..Len(modelResults) :
       /\ modelResults[j].response # NoData
       /\ modelResults[k].response = NoData
       /\ modelResults[k].error = ""

(***************************************************************************)
(* Properties of auto-run, clear and edit (checked under SpecAuto)         *)
(***************************************************************************)
\* C24: an evaluation the auto-run timer of a run starts judges the responses
\* that run produced: one judge call for each model the run left with a
\* response, made from that response and from the run's prompt.
C24_AutoRunUsesRunResults ==
  \A r \in 1..Len(evalRuns) :
    evalRuns[r].auto =>
      LET fresh == SelectSeq(evalRuns[r].produced,
                             LAMBDA m : m.response # NoData)
      IN /\ Len(evalRuns[r].calls) = Len(fresh)
         /\ \A k \in 1..Len(fresh) :
              /\ evalRuns[r].calls[k].modelId = fresh[k].model.id
              /\ evalRuns[r].calls[k].output = fresh[k].response.content

\* C25: after handleEditEval the evals list is the list of before with the
\* submitted config in the place of the evaluation that was opened, and
\* evalResults holds no entry of the evaluation that was opened.
C25_EditReplacesOpened ==
  answer.op = "handleEditEval" =>
    LET k == answer.args[1]
        opened == answer.args[2]
        submitted == answer.args[3]
    IN /\ Len(evals) = Len(answer.before)
       /\ evals[k] = submitted
       /\ \A j \in 1..Len(evals) : j # k => evals[j] = answer.before[j]
       /\ \A j \in 1..Len(evalResults) : evalResults[j].evalId # opened.name

\* C27: every evalResults entry that holds a result belongs to a model whose
\* entry in modelResults holds a response now (the response the result was
\* computed from, if any was).
C27_ResultsOfCurrentResponses ==
  \A j \in 1..Len(evalResults) :
    evalResults[j].result # "" =>
      \E k \in 1..Len(modelResults) :
        /\ modelResults[k].model.id = evalResults[j].modelId
        /\ modelResults[k].response # NoData

(***************************************************************************)
(* Properties of evaluations run side by side (checked under SpecPair)     *)
(***************************************************************************)
\* The entries of the evaluation name, in their order.
ResultsOf(results, name) == SelectSeq(results, LAMBDA e : e.evalId = name)

\* The names the entries of evalResults carry before or after a step.
ResultNames(before, after) ==
  {before[j].evalId : j \in 1..Len(before)}
    \cup {after[j].evalId : j \in 1..Len(after)}

\* C28: the loading update at the start of a handleRunEval and the final
\* update at its end leave the entries of every evaluation of another name
\* as they were, and put the entries of its own: one for each model result
\* read at the start, one for each judge call at the end.
C28_OtherEvaluationsKept ==
  [][/\ Len(evalRuns') > Len(evalRuns) =>
          LET started == evalRuns'[Len(evalRuns')] IN
            /\ \A name \in ResultNames(evalResults, evalResults') :
                 name # started.config.name =>
                   ResultsOf(evalResults', name) = ResultsOf(evalResults, name)
            /\ Len(ResultsOf(evalResults', started.config.name))
                 = Len(started.read)
     /\ \A r \in 1..Len(evalRuns) :
          evalRuns' = Without(evalRuns, r) =>
            /\ \A name \in ResultNames(evalResults, evalResults') :
                 name # evalRuns[r].config.name =>
                   ResultsOf(evalResults', name) = ResultsOf(evalResults, name)
            /\ Len(ResultsOf(evalResults', evalRuns[r].config.name))
                 = Len(evalRuns[r].calls)]_vars

\* One of two evaluations started side by side has ended and left its
\* texts, the other is still in progress with its loading entries.
C28_Witness ==
  /\ Len(evalRuns) = 1
  /\ \E i, j \in 1..Len(evalResults) :
       /\ i < j
       /\ evalResults[i].evalId = evalRuns[1].config.name
       /\ evalResults[i].isLoading
       /\ evalResults[j].evalId # evalRuns[1].config.name
       /\ evalResults[j].result # ""

RECURSIVE Verbatim(_, _, _, _)
\* The text s from its k-th character on with every token given as text,
\* character for character; what is put in is not looked at again.
Verbatim(s, token, text, k) ==
  LET at == IndexOf(s, token, k) IN
    IF at = 0 THEN SubSeq(s, k, Len(s))
    ELSE SubSeq(s, k, at - 1) \o text
           \o Verbatim(s, token, text, at + Len(token))

\* C30: for a prompt and a response without dollar signs, the judge prompt
\* is the template with {input} given as the prompt and then, in the text
\* so made, {output} given as the response: an {output} of the prompt is
\* replaced by the response, and an {input} of the response stays.
C30_InputThenOutput ==
  \A r \in 1..Len(evalRuns) : \A k \in 1..Len(evalRuns[r].calls) :
    LET input == evalRuns[r].input
        output == evalRuns[r].calls[k].output
        judgePrompt == evalRuns[r].calls[k].judgePrompt
    IN (~Includes(input, "$") /\ ~Includes(output, "$")) =>
         /\ judgePrompt =
              Verbatim(Verbatim(evalRuns[r].config.prompt, "{input}", input,
                                1),
                       "{output}", output, 1)
         /\ (Includes(evalRuns[r].config.prompt, "{output}")
               /\ Includes(output, "{input}")) => Includes(judgePrompt, "{input}")
         /\ (Includes(evalRuns[r].config.prompt, "{input}")
               /\ Includes(input, "{output}") /\ ~Includes(output, "{output}"))
              => ~Includes(judgePrompt, "{output}")

\* A judge call for a prompt that holds {output} and a response that holds
\* {input}.
C30_Witness ==
  \E r \in 1..Len(evalRuns) : \E k \in 1..Len(evalRuns[r].calls) :
    /\ Includes(evalRuns[r].input, "{output}")
    /\ Includes(evalRuns[r].calls[k].output, "{input}")
    /\ Includes(evalRuns[r].config.prompt, "{input}")
    /\ Includes(evalRuns[r].config.prompt, "{output}")
    /\ Includes(evalRuns[r].calls[k].judgePrompt, "{input}")

====
